---- MODULE Spec2Model ----
(***************************************************************************)
(* Model of pwa/service-worker.js: the install, activate and fetch         *)
(* handlers of the worker, run by the host's service-worker lifecycle      *)
(* against the Cache Storage, the network and the client-control           *)
(* collaborators.                                                          *)
(*                                                                         *)
(* Cache Storage is an ordered list of named stores (the order of          *)
(* creation, which is the order caches.keys() and caches.match() use).     *)
(* Every promise of a collaborator settles in a step of its own, either    *)
(* way: a fetch resolves to a response or rejects with a transport error;  *)
(* caches.open, caches.keys, caches.delete, cache.addAll and cache.put     *)
(* resolve or reject.                                                      *)
(***************************************************************************)
EXTENDS Naturals, Sequences, FiniteSets

\* ------------------------------------------------------------------ bounds

\* Request-handling tasks that may be in flight at once.
MaxHandlers == 2

\* ------------------------------------------------- the program's constants

CACHE_NAME == "atc-v1"

ASSETS ==
  <<"/", "/index.html", "/manifest.json", "/icons/icon-192.png", "/icons/icon-512.png">>

API_PREFIX == "/api/"

\* ---------------------------------------------------------------- requests

\* Paths of the requests the clients send: a manifest asset, an API path, and
\* an asset outside the manifest whose path begins like the API prefix without
\* being under it.
Paths == {"/index.html", "/api/status", "/apidocs.html"}

\* The requests the clients send: a GET and a POST of the manifest asset, a GET
\* of the other asset, and a GET and a POST of the API path.
Requests ==
  { [path |-> "/index.html", method |-> "GET"], [path |-> "/index.html", method |-> "POST"],
    [path |-> "/apidocs.html", method |-> "GET"],
    [path |-> "/api/status", method |-> "GET"], [path |-> "/api/status", method |-> "POST"] }

\* Every URL a store may hold an entry for.
Urls == {ASSETS[i] : i \in 1..Len(ASSETS)} \cup Paths

\* String.prototype.startsWith
StartsWith(s, p) == Len(s) >= Len(p) /\ SubSeq(s, 1, Len(p)) = p

\* url.pathname.startsWith('/api/')
IsApi(req) == StartsWith(req.path, API_PREFIX)

\* --------------------------------------------------------------- responses

Resp(st, ct, b) == [status |-> st, ctype |-> ct, body |-> b]

\* The value of a promise that resolved to undefined (caches.match on a miss),
\* and the place of a response that does not exist (yet).
Undefined == Resp(0, "", "")

\* The rejection of fetch(): a transport-level error.
NetError == Resp(0, "", "TypeError: Failed to fetch")

\* What the network may answer a request handler.
NetResponses ==
  { Resp(200, "text/html", "v1"), Resp(200, "text/html", "v1b"),
    Resp(206, "text/html", "v1"), Resp(404, "text/html", "v1") }

\* What the network may answer a manifest fetch of cache.addAll.
InstallResponses == { Resp(200, "text/html", "v1"), Resp(404, "text/html", "v1") }

\* An entry left in a store by an earlier release.
OldResponse == Resp(200, "text/html", "v0")

\* Response.ok
Ok(r) == r.status >= 200 /\ r.status <= 299

\* JSON.stringify of an object given as its <<key, value>> pairs (string values).
RECURSIVE JsonMembers(_)
JsonMembers(pairs) ==
  IF pairs = <<>> THEN ""
  ELSE "\"" \o pairs[1][1] \o "\":\"" \o pairs[1][2] \o "\""
       \o (IF Len(pairs) > 1 THEN "," ELSE "") \o JsonMembers(Tail(pairs))

JSONStringify(pairs) == "{" \o JsonMembers(pairs) \o "}"

\* new Response(JSON.stringify({ error: ... }), { headers: { 'Content-Type': ... } }):
\* the status of a constructed Response defaults to 200.
OfflineResponse ==
  Resp(200, "application/json", JSONStringify(<< <<"error", "You appear to be offline.">> >>))

\* ------------------------------------------------------------ Cache Storage

StoreNames == {"atc-v0", CACHE_NAME, "atc-v2"}

EmptyEntries == [u \in Urls |-> Undefined]

OldEntries ==
  [u \in Urls |-> IF u \in {"/index.html", "/apidocs.html"} THEN OldResponse ELSE Undefined]

Names(stg) == {stg[i].name : i \in 1..Len(stg)}

\* caches.keys(): the names in the order of creation
CachesKeys(stg) == [i \in 1..Len(stg) |-> stg[i].name]

\* caches.open(name): the store is created, last, when absent
CachesOpen(stg, name) ==
  IF name \in Names(stg) THEN stg
  ELSE Append(stg, [name |-> name, entries |-> EmptyEntries])

\* caches.delete(name)
CachesDelete(stg, name) == SelectSeq(stg, LAMBDA s : s.name # name)

\* The entries of the store called name (none when there is no such store).
EntriesOf(stg, name) ==
  IF name \in Names(stg)
  THEN (CHOOSE s \in {stg[i] : i \in 1..Len(stg)} : s.name = name).entries
  ELSE EmptyEntries

\* cache.put(request, response) on the store called name
CachePut(stg, name, url, r) ==
  [i \in 1..Len(stg) |->
     IF stg[i].name = name
     THEN [stg[i] EXCEPT !.entries = [@ EXCEPT ![url] = r]]
     ELSE stg[i]]

\* cache.addAll's batch of puts, once every response has arrived
CachePutAll(stg, name, rs) ==
  [i \in 1..Len(stg) |->
     IF stg[i].name = name
     THEN [stg[i] EXCEPT !.entries = [u \in Urls |-> IF rs[u] # Undefined THEN rs[u] ELSE @[u]]]
     ELSE stg[i]]

\* caches.match(request): the first store, in the order of creation, that holds
\* an entry for the request; a request whose method is not GET matches nothing.
CachesMatch(stg, req) ==
  LET hits == {i \in 1..Len(stg) : stg[i].entries[req.path] # Undefined}
  IN  IF req.method # "GET" \/ hits = {} THEN Undefined
      ELSE stg[CHOOSE i \in hits : \A j \in hits : i <= j].entries[req.path]

\* The Cache Storage the worker may find when it is registered: stores of
\* earlier (or other) releases, and possibly one under its own name, each
\* holding what an earlier release stored.
InitStorages ==
  LET recs == [name : StoreNames, entries : {OldEntries}]
      seqs == UNION {[1..n -> recs] : n \in 0..Cardinality(StoreNames)}
  IN  {s \in seqs : \A i, j \in 1..Len(s) : i # j => s[i].name # s[j].name}

\* ------------------------------------------------------------------- state

VARIABLES
  phase,        \* the worker's state: parsed, installing, installed, activating, activated, redundant
  skipWaiting,  \* the worker's skip-waiting flag
  claimed,      \* clients.claim() has been called
  installWork,  \* the promise given to the install event's waitUntil
  fetched,      \* cache.addAll: the outcome of each manifest fetch
  cleanup,      \* the promise given to the activate event's waitUntil
  del,          \* the caches.delete(k) promises of the cleanup
  storage,      \* Cache Storage
  handlers      \* the request-handling tasks

vars == <<phase, skipWaiting, claimed, installWork, fetched, cleanup, del, storage, handlers>>

Pending == Resp(0, "", "pending")

IdleHandler ==
  [pc |-> "idle", req |-> [path |-> "/", method |-> "GET"], net |-> Undefined,
   calls |-> 0, resp |-> Undefined, wr |-> "none"]

Init ==
  /\ phase = "parsed"
  /\ skipWaiting = FALSE
  /\ claimed = FALSE
  /\ installWork = "none"
  /\ fetched = [u \in Urls |-> Undefined]
  /\ cleanup = "none"
  /\ del = [n \in StoreNames |-> "none"]
  /\ storage \in InitStorages
  /\ handlers = [h \in 1..MaxHandlers |-> IdleHandler]

\* ----------------------------------------------------------------- install

Manifest == {ASSETS[i] : i \in 1..Len(ASSETS)}

\* The install event: waitUntil(caches.open(CACHE_NAME).then(addAll)), then
\* skipWaiting(), both in the handler's synchronous run.
Install ==
  /\ phase = "parsed"
  /\ phase' = "installing"
  /\ installWork' = "opening"
  /\ skipWaiting' = TRUE
  /\ UNCHANGED <<claimed, fetched, cleanup, del, storage, handlers>>

\* caches.open(CACHE_NAME) settles; resolved, cache.addAll(ASSETS) starts its fetches.
InstallOpenSettles ==
  /\ installWork = "opening"
  /\ \/ /\ storage' = CachesOpen(storage, CACHE_NAME)
        /\ installWork' = "fetching"
        /\ fetched' = [u \in Urls |-> IF u \in Manifest THEN Pending ELSE Undefined]
     \/ /\ installWork' = "rejected"
        /\ UNCHANGED <<storage, fetched>>
  /\ UNCHANGED <<phase, skipWaiting, claimed, cleanup, del, handlers>>

\* One manifest fetch of cache.addAll settles.
ManifestFetchSettles ==
  /\ installWork = "fetching"
  /\ \E u \in Manifest, r \in InstallResponses \cup {NetError} :
       /\ fetched[u] = Pending
       /\ fetched' = [fetched EXCEPT ![u] = r]
  /\ UNCHANGED <<phase, skipWaiting, claimed, installWork, cleanup, del, storage, handlers>>

\* cache.addAll rejects as soon as one fetch failed or answered a status
\* outside 2xx, and stores nothing.
AddAllRejects(f) == \E u \in Manifest : f[u] = NetError \/ (f[u] # Pending /\ ~Ok(f[u]))

\* A slip: addAll taken to store whatever arrived, failures included.
AddAllResolvesLenient(f) == \A u \in Manifest : f[u] # Pending

\* cache.addAll goes on to store once every fetch has answered with a 2xx status.
AddAllResolves(f) == \A u \in Manifest : f[u] # Pending /\ f[u] # NetError /\ Ok(f[u])

\* A slip: entries a store already holds are kept (cache.add only when absent).
AddAllKeepsExisting(stg, f) ==
  [i \in 1..Len(stg) |->
     IF stg[i].name = CACHE_NAME
     THEN [stg[i] EXCEPT !.entries =
             [u \in Urls |-> IF @[u] = Undefined /\ f[u] # Undefined THEN f[u] ELSE @[u]]]
     ELSE stg[i]]

\* cache.addAll stores every response, in one batch, overwriting the entries
\* the store holds for the same URLs.
AddAllStores(stg, f) == CachePutAll(stg, CACHE_NAME, f)

AddAllSettles ==
  /\ installWork = "fetching"
  /\ \/ /\ AddAllRejects(fetched)
        /\ installWork' = "rejected"
        /\ UNCHANGED storage
     \/ /\ AddAllResolves(fetched)
        /\ \/ /\ storage' = AddAllStores(storage, fetched)
              /\ installWork' = "resolved"
           \/ /\ installWork' = "rejected"
              /\ UNCHANGED storage
  /\ UNCHANGED <<phase, skipWaiting, claimed, fetched, cleanup, del, handlers>>

\* A slip: the setup work not handed to event.waitUntil, so that the install
\* event is over as soon as the handler returns.
InstallNotHeld(work) == TRUE

\* event.waitUntil of the install event: the event is held open until the
\* promise it was given has settled.
InstallHeldUntil(work) == work \in {"resolved", "rejected"}

\* The host's Install algorithm: once the install event is over, the worker
\* becomes redundant when a promise given to waitUntil rejected, and installed
\* otherwise.
InstallSettled ==
  /\ phase = "installing"
  /\ InstallHeldUntil(installWork)
  /\ phase' = IF installWork = "rejected" THEN "redundant" ELSE "installed"
  /\ UNCHANGED <<skipWaiting, claimed, installWork, fetched, cleanup, del, storage, handlers>>

\* ---------------------------------------------------------------- activate

\* A slip: the comparison of the filter inverted.
StaleKeysInverted(keys) == SelectSeq(keys, LAMBDA k : k = CACHE_NAME)

\* A slip: no filter, every store deleted.
StaleKeysAll(keys) == keys

\* keys.filter((k) => k !== CACHE_NAME)
StaleKeys(keys) == SelectSeq(keys, LAMBDA k : k # CACHE_NAME)

\* The activate event: waitUntil(caches.keys().then(...)), then clients.claim(),
\* both in the handler's synchronous run. The host fires it once the worker is
\* installed; with the skip-waiting flag set it does not wait for the clients
\* of an earlier worker to go away.
Activate ==
  /\ phase = "installed"
  /\ phase' = "activating"
  /\ cleanup' = "keys"
  /\ claimed' = TRUE
  /\ UNCHANGED <<skipWaiting, installWork, fetched, del, storage, handlers>>

\* A slip: the deletions chained one after the other, the next one started
\* only when the one before succeeded; at first only the first is started.
DeletesStartedFirstOnly(stale) ==
  [n \in StoreNames |-> IF stale # <<>> /\ stale[1] = n THEN "pending" ELSE "none"]

\* stale.map((k) => caches.delete(k)): a deletion is started for every stale
\* key, all in the same synchronous run of the callback.
DeletesStarted(stale) ==
  [n \in StoreNames |->
     IF \E i \in 1..Len(stale) : stale[i] = n THEN "pending" ELSE "none"]

\* caches.keys() settles; resolved, the deletions are started.
KeysSettle ==
  /\ cleanup = "keys"
  /\ \/ /\ cleanup' = "deleting"
        /\ del' = DeletesStarted(StaleKeys(CachesKeys(storage)))
     \/ /\ cleanup' = "rejected"
        /\ UNCHANGED del
  /\ UNCHANGED <<phase, skipWaiting, claimed, installWork, fetched, storage, handlers>>

\* One caches.delete(k) settles, whatever became of the others and of the
\* promise that awaits them.
DeleteSettles ==
  /\ \E k \in StoreNames :
       /\ del[k] = "pending"
       /\ \/ /\ storage' = CachesDelete(storage, k)
             /\ del' = [del EXCEPT ![k] = "deleted"]
          \/ /\ del' = [del EXCEPT ![k] = "failed"]
             /\ UNCHANGED storage
  /\ UNCHANGED <<phase, skipWaiting, claimed, installWork, fetched, cleanup, handlers>>

\* Promise.all: rejected as soon as one deletion rejected, resolved once all resolved.
CleanupSettles ==
  /\ cleanup = "deleting"
  /\ \/ /\ \E k \in StoreNames : del[k] = "failed"
        /\ cleanup' = "rejected"
     \/ /\ \A k \in StoreNames : del[k] \in {"none", "deleted"}
        /\ cleanup' = "resolved"
  /\ UNCHANGED <<phase, skipWaiting, claimed, installWork, fetched, del, storage, handlers>>

\* A slip: the cleanup not handed to event.waitUntil, so that the activate
\* event is over as soon as the handler returns.
ActivateNotHeld(work) == TRUE

\* event.waitUntil of the activate event: the event is held open until the
\* promise it was given has settled.
ActivateHeldUntil(work) == work \in {"resolved", "rejected"}

\* The host's Activate algorithm: the worker becomes activated once the
\* activate event is over, whether the promise resolved or rejected.
Activated ==
  /\ phase = "activating"
  /\ ActivateHeldUntil(cleanup)
  /\ phase' = "activated"
  /\ UNCHANGED <<skipWaiting, claimed, installWork, fetched, cleanup, del, storage, handlers>>

\* ------------------------------------------------------------------- fetch

\* A slip: the method of the request not looked at.
ShouldCacheAnyMethod(req, r) == Ok(r)

\* A slip: the status of the response not looked at.
ShouldCacheAnyStatus(req, r) == req.method = "GET"

\* response.ok && event.request.method === 'GET'
ShouldCache(req, r) == Ok(r) /\ req.method = "GET"

\* cache.put rejects a partial response (status 206) and a request that is not a GET.
PutAccepts(req, r) == r.status # 206 /\ req.method = "GET"

\* A slip: every request sent down the cache-first branch.
RouteCacheFirst(req) == "match"

\* The branch of the fetch handler a request takes.
Route(req) == IF IsApi(req) THEN "fetch" ELSE "match"

\* A slip: no catch on the API branch's fetch.
ApiAnswerNoCatch(r) == r

\* A slip: a status outside 2xx taken for a failure.
ApiAnswerOkOnly(r) == IF r = NetError \/ ~Ok(r) THEN OfflineResponse ELSE r

\* What the API branch answers with: fetch(event.request).catch(() => new Response(...))
ApiAnswer(r) == IF r = NetError THEN OfflineResponse ELSE r

\* The fetch event. The host dispatches it to the worker only once the worker
\* is activated. The API branch calls fetch() at once; the other branch calls
\* caches.match().
Fetch ==
  /\ phase = "activated"
  /\ \E h \in 1..MaxHandlers, req \in Requests :
       /\ handlers[h].pc = "idle"
       /\ \A g \in 1..MaxHandlers : handlers[g].pc = "idle" => h <= g
       /\ handlers' = [handlers EXCEPT ![h] =
            [IdleHandler EXCEPT !.pc = Route(req), !.req = req,
                                !.calls = IF Route(req) = "fetch" THEN 1 ELSE 0]]
  /\ UNCHANGED <<phase, skipWaiting, claimed, installWork, fetched, cleanup, del, storage>>

\* caches.match(event.request) resolves: a hit is the answer, a miss calls fetch().
MatchSettles ==
  /\ \E h \in 1..MaxHandlers :
       /\ handlers[h].pc = "match"
       /\ LET cached == CachesMatch(storage, handlers[h].req)
          IN  handlers' = [handlers EXCEPT ![h] =
                IF cached # Undefined
                THEN [@ EXCEPT !.pc = "responded", !.resp = cached]
                ELSE [@ EXCEPT !.pc = "fetch", !.calls = @ + 1]]
  /\ UNCHANGED <<phase, skipWaiting, claimed, installWork, fetched, cleanup, del, storage>>

\* A slip: the offline fallback attached to the fetch of both branches.
AfterNetworkCatchAll(t, r) ==
  IF r = NetError
  THEN [t EXCEPT !.pc = "responded", !.net = r, !.resp = OfflineResponse]
  ELSE [t EXCEPT !.pc = "responded", !.net = r, !.resp = r,
                 !.wr = IF ~IsApi(t.req) /\ Ok(r) /\ t.req.method = "GET" THEN "open" ELSE "none"]

\* A slip: the write awaited before the response is returned.
AfterNetworkAwaitsWrite(t, r) ==
  IF IsApi(t.req)
  THEN [t EXCEPT !.pc = "responded", !.net = r, !.resp = ApiAnswer(r)]
  ELSE IF r = NetError
       THEN [t EXCEPT !.pc = "failed", !.net = r]
       ELSE IF ShouldCache(t.req, r)
            THEN [t EXCEPT !.pc = "writing", !.net = r, !.wr = "open"]
            ELSE [t EXCEPT !.pc = "responded", !.net = r, !.resp = r]

\* A slip: a failed fetch issued once more before giving up.
AfterNetworkRetries(t, r) ==
  IF r = NetError /\ t.calls < 2
  THEN [t EXCEPT !.pc = "fetch", !.calls = @ + 1]
  ELSE IF IsApi(t.req)
       THEN [t EXCEPT !.pc = "responded", !.net = r, !.resp = ApiAnswer(r)]
       ELSE IF r = NetError
            THEN [t EXCEPT !.pc = "failed", !.net = r]
            ELSE [t EXCEPT !.pc = "responded", !.net = r, !.resp = r,
                           !.wr = IF ShouldCache(t.req, r) THEN "open" ELSE "none"]

\* The state of a task whose fetch() settled with r (a response, or NetError).
AfterNetwork(t, r) ==
  IF IsApi(t.req)
  THEN [t EXCEPT !.pc = "responded", !.net = r, !.resp = ApiAnswer(r)]
  ELSE IF r = NetError
       THEN [t EXCEPT !.pc = "failed", !.net = r]
       ELSE [t EXCEPT !.pc = "responded", !.net = r, !.resp = r,
                      !.wr = IF ShouldCache(t.req, r) THEN "open" ELSE "none"]

\* fetch(event.request) settles.
NetworkSettles ==
  /\ \E h \in 1..MaxHandlers, r \in NetResponses \cup {NetError} :
       /\ handlers[h].pc = "fetch"
       /\ handlers' = [handlers EXCEPT ![h] = AfterNetwork(@, r)]
  /\ UNCHANGED <<phase, skipWaiting, claimed, installWork, fetched, cleanup, del, storage>>

\* A slip: the detached write opening the store of the release before.
WriteTargetStale == "atc-v0"

\* The store the detached write opens and puts into: caches.open(CACHE_NAME).
WriteTarget == CACHE_NAME

\* A slip: an entry the store already holds is kept.
WritePutKeepsExisting(stg, req, r) ==
  IF EntriesOf(stg, WriteTarget)[req.path] # Undefined THEN stg
  ELSE CachePut(stg, WriteTarget, req.path, r)

\* cache.put(event.request, clone): the entry for the request is set, or replaced.
WritePut(stg, req, r) == CachePut(stg, WriteTarget, req.path, r)

\* caches.open(CACHE_NAME) of the detached write settles.
WriteOpenSettles ==
  /\ \E h \in 1..MaxHandlers :
       /\ handlers[h].wr = "open"
       /\ \/ /\ storage' = CachesOpen(storage, WriteTarget)
             /\ handlers' = [handlers EXCEPT ![h].wr = "put"]
          \/ /\ handlers' = [handlers EXCEPT ![h].wr = "failed"]
             /\ UNCHANGED storage
  /\ UNCHANGED <<phase, skipWaiting, claimed, installWork, fetched, cleanup, del>>

\* cache.put(event.request, clone) of the detached write settles.
WritePutSettles ==
  /\ \E h \in 1..MaxHandlers :
       /\ handlers[h].wr = "put"
       /\ \/ /\ PutAccepts(handlers[h].req, handlers[h].resp)
             /\ storage' = WritePut(storage, handlers[h].req, handlers[h].resp)
             /\ handlers' = [handlers EXCEPT ![h].wr = "stored"]
          \/ /\ handlers' = [handlers EXCEPT ![h].wr = "failed"]
             /\ UNCHANGED storage
  /\ UNCHANGED <<phase, skipWaiting, claimed, installWork, fetched, cleanup, del>>

\* A task whose answer was delivered and whose detached write, if any, settled
\* is over.
HandlerDone ==
  /\ \E h \in 1..MaxHandlers :
       /\ handlers[h].pc \in {"responded", "failed"}
       /\ handlers[h].wr \notin {"open", "put"}
       /\ handlers' = [handlers EXCEPT ![h] = IdleHandler]
  /\ UNCHANGED <<phase, skipWaiting, claimed, installWork, fetched, cleanup, del, storage>>

Next ==
  \/ Install
  \/ InstallOpenSettles
  \/ ManifestFetchSettles
  \/ AddAllSettles
  \/ InstallSettled
  \/ Activate
  \/ KeysSettle
  \/ DeleteSettles
  \/ CleanupSettles
  \/ Activated
  \/ Fetch
  \/ MatchSettles
  \/ NetworkSettles
  \/ WriteOpenSettles
  \/ WritePutSettles
  \/ HandlerDone

Spec == Init /\ [][Next]_vars

\* ------------------------------------------------------------------ claims

H == 1..MaxHandlers

\* The store named by the current version tag holds an entry for the request.
ActiveEntry(stg, req) == EntriesOf(stg, CACHE_NAME)[req.path]

ActiveHas(stg, req) == req.method = "GET" /\ ActiveEntry(stg, req) # Undefined

\* The task's fetch() resolved to a response.
Answered(t) == t.net # Undefined /\ t.net # NetError

\* The task is over but for being cleared: its answer (or failure) was
\* delivered and its detached write, if any, settled.
Settled(t) == t.pc \in {"responded", "failed"} /\ t.wr \notin {"open", "put"}

\* C1: whenever caches.match settles for a non-API request for which the store
\* named by the current version tag holds an entry, the answer is that entry
\* and no network call was made, whatever other stores exist.
C1_HitServesActiveEntry ==
  [][\A h \in H :
       (/\ handlers[h].pc = "match"
        /\ handlers'[h].pc # "match"
        /\ ~IsApi(handlers[h].req)
        /\ ActiveHas(storage, handlers[h].req))
       => /\ handlers'[h].pc = "responded"
          /\ handlers'[h].resp = ActiveEntry(storage, handlers[h].req)
          /\ handlers'[h].calls = 0]_vars

\* A non-API GET task whose caches.match missed and whose fetch() resolved to
\* a 2xx response.
MissGet2xx(t) == ~IsApi(t.req) /\ t.req.method = "GET" /\ Answered(t) /\ Ok(t.net)

\* C2 as stated: once such a task is settled, it was answered with the network
\* response and its write has put that response into the store.
C2_MissIsStored ==
  \A h \in H :
    (MissGet2xx(handlers[h]) /\ Settled(handlers[h]))
    => handlers[h].resp = handlers[h].net /\ handlers[h].wr = "stored"

\* C2 as amended: such a task is answered with the network response and starts
\* a write; when the write's put succeeds, the store named by the current
\* version tag holds, for the request, exactly that response, which is no
\* partial (206) response; this under every interleaving of the tasks.
C2_MissAnsweredAndPutStores ==
  [][\A h \in H :
       /\ MissGet2xx(handlers'[h])
          => /\ handlers'[h].pc = "responded"
             /\ handlers'[h].resp = handlers'[h].net
             /\ handlers'[h].wr # "none"
       /\ (handlers[h].wr = "put" /\ handlers'[h].wr = "stored")
          => /\ MissGet2xx(handlers[h])
             /\ ActiveEntry(storage', handlers[h].req) = handlers[h].net
             /\ handlers[h].net.status # 206]_vars

\* Two tasks for the same request got different network responses and both
\* stored theirs.
C2_Witness ==
  \E h, g \in H :
    /\ h # g
    /\ handlers[h].req = handlers[g].req
    /\ MissGet2xx(handlers[h]) /\ MissGet2xx(handlers[g])
    /\ handlers[h].net # handlers[g].net
    /\ handlers[h].wr = "stored" /\ handlers[g].wr = "stored"

\* C3: an API task whose fetch() failed answers with the synthesized response
\* (status 200, Content-Type application/json, the offline JSON body), and no
\* API task ends in a failed fetch.
C3_ApiOfflineFallback ==
  \A h \in H :
    IsApi(handlers[h].req)
    => /\ handlers[h].pc # "failed"
       /\ handlers[h].net = NetError
          => /\ handlers[h].pc = "responded"
             /\ handlers[h].resp =
                  Resp(200, "application/json", "{\"error\":\"You appear to be offline.\"}")

C3_Witness ==
  \E h \in H :
    /\ IsApi(handlers[h].req) /\ handlers[h].net = NetError
    /\ handlers[h].pc = "responded" /\ handlers[h].resp.status = 200

\* C4: an API task whose fetch() resolved answers with exactly that response,
\* whatever its status, and not with the offline fallback.
C4_ApiPassThrough ==
  \A h \in H :
    (IsApi(handlers[h].req) /\ Answered(handlers[h]))
    => /\ handlers[h].pc = "responded"
       /\ handlers[h].resp = handlers[h].net
       /\ handlers[h].resp # OfflineResponse

C4_Witness ==
  \E h \in H :
    /\ IsApi(handlers[h].req) /\ handlers[h].pc = "responded"
    /\ handlers[h].net.status = 404 /\ handlers[h].resp.status = 404

\* C5: once setup has succeeded, the store named by the current version tag
\* exists and holds, for every manifest URL, the 2xx response that setup
\* fetched for it, whatever the store held for that URL before.
C5_ManifestStored ==
  phase \in {"installed", "activating", "activated"}
  => /\ CACHE_NAME \in Names(storage)
     /\ \A u \in Manifest :
          /\ fetched[u] \in InstallResponses /\ Ok(fetched[u])
          /\ EntriesOf(storage, CACHE_NAME)[u] = fetched[u]

\* Setup succeeded on a store that existed before with entries of an earlier
\* release: the manifest entry was replaced, the other entry is still there.
C5_Witness ==
  /\ phase = "installed"
  /\ EntriesOf(storage, CACHE_NAME)["/apidocs.html"] = OldResponse
  /\ EntriesOf(storage, CACHE_NAME)["/index.html"] = fetched["/index.html"]
  /\ fetched["/index.html"] # OldResponse

\* C6: when a manifest fetch of setup has failed, setup does not succeed: the
\* worker is installing or redundant and never installed, activating or
\* activated; its cleanup never starts, it claims no client and it handles no
\* request; and nothing was stored by setup.
C6_FailedFetchFailsSetup ==
  (\E u \in Manifest : fetched[u] = NetError)
  => /\ phase \in {"installing", "redundant"}
     /\ installWork \in {"fetching", "rejected"}
     /\ cleanup = "none" /\ ~claimed
     /\ \A k \in StoreNames : del[k] = "none"
     /\ \A h \in H : handlers[h] = IdleHandler
     /\ \A u \in Manifest : EntriesOf(storage, CACHE_NAME)[u] \notin InstallResponses

C6_Witness ==
  /\ \E u \in Manifest : fetched[u] = NetError
  /\ \E u \in Manifest : fetched[u] \in InstallResponses /\ Ok(fetched[u])
  /\ phase = "redundant"

\* C7 as stated: when activation completes, the store names are exactly the
\* current version tag.
C7_OnlyCurrentAtActivation ==
  [][(phase = "activating" /\ phase' = "activated")
     => CachesKeys(storage') = <<CACHE_NAME>>]_vars

\* C7 as amended: when activation completes after a cleanup whose enumeration
\* and deletions all succeeded, the store names are exactly the current
\* version tag.
C7_OnlyCurrentAfterCleanCleanup ==
  [][(phase = "activating" /\ phase' = "activated" /\ cleanup = "resolved")
     => CachesKeys(storage') = <<CACHE_NAME>>]_vars

\* Activation completed after both stale stores were deleted.
C7_Witness ==
  /\ phase = "activated" /\ cleanup = "resolved"
  /\ del["atc-v0"] = "deleted" /\ del["atc-v2"] = "deleted"
  /\ CachesKeys(storage) = <<CACHE_NAME>>

\* The number of stores called name.
Count(stg, name) == Cardinality({i \in 1..Len(stg) : stg[i].name = name})

\* C8 as stated: in every state after activation completed there is at most
\* one store under the current version tag and none under another.
C8_NoStaleOnceActivated ==
  phase = "activated"
  => Count(storage, CACHE_NAME) <= 1 /\ Names(storage) \subseteq {CACHE_NAME}

\* C8 as amended: there is never more than one store under the current version
\* tag, and in every state after activation completed with a cleanup whose
\* enumeration and deletions all succeeded there is none under another tag,
\* whatever requests are handled.
C8_NoStaleOnceCleanlyActivated ==
  /\ Count(storage, CACHE_NAME) <= 1
  /\ (phase = "activated" /\ cleanup = "resolved")
     => Names(storage) \subseteq {CACHE_NAME}

\* After a clean activation that deleted a stale store, a task's detached
\* write has completed while another task is in flight.
C8_Witness ==
  /\ phase = "activated" /\ cleanup = "resolved"
  /\ \E k \in StoreNames : del[k] = "deleted"
  /\ \E h, g \in H : handlers[h].wr = "stored" /\ handlers[g].pc = "fetch"

\* A non-API task whose caches.match missed and whose fetch() resolved, for a
\* request that is not a GET or with a status outside 2xx.
MissNotCacheable(t) ==
  ~IsApi(t.req) /\ Answered(t) /\ (t.req.method # "GET" \/ ~Ok(t.net))

\* C9: such a task is answered with the network response, starts no write, and
\* none of its steps changes a store.
C9_NotCacheableNotStored ==
  [][\A h \in H :
       /\ MissNotCacheable(handlers'[h])
          => /\ handlers'[h].pc = "responded"
             /\ handlers'[h].resp = handlers'[h].net
             /\ handlers'[h].wr = "none"
       /\ ((MissNotCacheable(handlers[h]) \/ MissNotCacheable(handlers'[h]))
           /\ handlers'[h] # handlers[h])
          => storage' = storage]_vars

\* Both cases at once: a POST (of a URL the store holds an entry for) answered
\* 200 and a GET answered 404.
C9_Witness ==
  \E h, g \in H :
    /\ MissNotCacheable(handlers[h]) /\ handlers[h].req.method = "POST"
    /\ Ok(handlers[h].net) /\ handlers[h].pc = "responded"
    /\ MissNotCacheable(handlers[g]) /\ handlers[g].req.method = "GET"
    /\ handlers[g].net.status = 404 /\ handlers[g].pc = "responded"

\* A non-API task whose caches.match missed and whose fetch() failed.
MissNetFailed(t) == ~IsApi(t.req) /\ t.net = NetError

\* C10: such a task ends in a failed fetch: no response is delivered, none is
\* synthesized, no write is started, and none of its steps changes a store.
C10_StaticFailurePropagates ==
  [][\A h \in H :
       /\ MissNetFailed(handlers'[h])
          => /\ handlers'[h].pc = "failed"
             /\ handlers'[h].resp = Undefined
             /\ handlers'[h].wr = "none"
       /\ ((MissNetFailed(handlers[h]) \/ MissNetFailed(handlers'[h]))
           /\ handlers'[h] # handlers[h])
          => storage' = storage]_vars

C10_Witness ==
  \E h \in H :
    /\ MissNetFailed(handlers[h]) /\ handlers[h].req.method = "GET"
    /\ handlers[h].pc = "failed" /\ handlers[h].calls = 1

\* C11: a non-API GET task whose caches.match missed and whose fetch() resolved
\* to a 2xx response has delivered that response, unchanged, in every state of
\* its detached write: waiting for caches.open, waiting for cache.put, stored,
\* or failed; it never ends in a failed fetch.
C11_AnsweredWhateverTheWrite ==
  \A h \in H :
    MissGet2xx(handlers[h])
    => /\ handlers[h].wr \in {"open", "put", "stored", "failed"}
       /\ handlers[h].pc = "responded"
       /\ handlers[h].resp = handlers[h].net

\* One task has its answer while its write still waits for caches.open;
\* another has its answer although its write failed.
C11_Witness ==
  \E h, g \in H :
    /\ MissGet2xx(handlers[h]) /\ handlers[h].wr = "open" /\ handlers[h].pc = "responded"
    /\ MissGet2xx(handlers[g]) /\ handlers[g].wr = "failed" /\ handlers[g].pc = "responded"

\* The stores under another name than the current version tag.
StaleNames == StoreNames \ {CACHE_NAME}

\* C12: once a deletion of the cleanup has failed, the deletion of every other
\* stale store has been started all the same: each stale store still there has
\* a deletion that is pending (and can settle) or has itself failed, and each
\* deletion that succeeded removed its store. The failure shows only in the
\* awaited promise, which does not resolve.
C12_DeletionsIndependent ==
  (\E k \in StoreNames : del[k] = "failed")
  => /\ \A n \in StaleNames :
          /\ n \in Names(storage) => del[n] \in {"pending", "failed"}
          /\ del[n] = "deleted" => n \notin Names(storage)
          /\ del[n] = "pending" => ENABLED DeleteSettles
     /\ cleanup \in {"deleting", "rejected"}

\* One stale store's deletion failed, the awaited promise rejected, and the
\* other stale store was deleted.
C12_Witness ==
  /\ del["atc-v0"] = "failed" /\ "atc-v0" \in Names(storage)
  /\ del["atc-v2"] = "deleted" /\ "atc-v2" \notin Names(storage)
  /\ cleanup = "rejected"

\* C13: while the setup work (caches.open, then cache.addAll) has not settled,
\* the worker is still installing although its skip-waiting flag is already
\* set; and once activation has begun (the worker is activating or activated,
\* its cleanup started, clients claimed), the setup work has resolved and
\* every manifest URL is stored.
C13_ActivationAfterSetup ==
  /\ installWork \in {"opening", "fetching"} => phase = "installing" /\ skipWaiting
  /\ (phase \in {"activating", "activated"} \/ cleanup # "none" \/ claimed)
     => /\ installWork = "resolved"
        /\ \A u \in Manifest :
             Ok(fetched[u]) /\ EntriesOf(storage, CACHE_NAME)[u] = fetched[u]

\* Activation has just begun, with the skip-waiting flag set since the install
\* handler ran.
C13_Witness ==
  phase = "activating" /\ cleanup = "keys" /\ skipWaiting /\ installWork = "resolved"

\* A request is being handled.
Busy == \E h \in H : handlers[h].pc # "idle"

\* C14 as stated: while a request is being handled, the worker is activated and
\* its cleanup is over: the awaited promise has settled and no deletion of a stale
\* store is still under way.
C14_NoRequestBeforeCleanupOver ==
  Busy => /\ phase = "activated"
          /\ cleanup \in {"resolved", "rejected"}
          /\ \A k \in StoreNames : del[k] # "pending"

\* C14 as amended: while a request is being handled, the worker is
\* activated and the promise given to the activate event's waitUntil has
\* settled; a deletion is then still under way only if another one failed.
C14_NoRequestBeforeAwaitSettled ==
  Busy => /\ phase = "activated" /\ claimed
          /\ cleanup \in {"resolved", "rejected"}
          /\ \A k \in StoreNames :
               del[k] = "pending" => \E j \in StoreNames : del[j] = "failed"
          /\ cleanup = "resolved" => Names(storage) \subseteq {CACHE_NAME}

\* A request is being handled by the worker that claimed the clients, after a
\* cleanup that deleted both stale stores.
C14_Witness ==
  /\ Busy /\ claimed /\ cleanup = "resolved"
  /\ del["atc-v0"] = "deleted" /\ del["atc-v2"] = "deleted"

\* A non-API task answered from a store.
CacheHit(t) == ~IsApi(t.req) /\ t.pc = "responded" /\ t.net = Undefined

\* C15: a task calls fetch() at most once: exactly once for an API request
\* and for a non-API request whose caches.match missed, never for a non-API
\* request waiting for caches.match or answered from a store; a task whose
\* fetch() failed is over and has called it once.
C15_OneNetworkAttempt ==
  \A h \in H :
    LET t == handlers[h]
    IN  /\ t.calls <= 1
        /\ (IsApi(t.req) /\ t.pc # "idle") => t.calls = 1
        /\ (~IsApi(t.req) /\ (t.pc = "match" \/ CacheHit(t))) => t.calls = 0
        /\ (~IsApi(t.req) /\ (t.pc = "fetch" \/ t.net # Undefined)) => t.calls = 1
        /\ t.net = NetError => t.pc \in {"responded", "failed"} /\ t.calls = 1

\* An API task whose one fetch failed, beside a task answered from a store
\* without any.
C15_Witness ==
  \E h, g \in H :
    /\ IsApi(handlers[h].req) /\ handlers[h].net = NetError /\ handlers[h].calls = 1
    /\ CacheHit(handlers[g]) /\ handlers[g].calls = 0

\* C16: no step of the cleanup (the start of the deletions, a deletion
\* settling) starts or performs a deletion of the store named by the current
\* version tag, and each leaves that store, with every entry, as it was.
C16_CleanupSparesCurrent ==
  [][del' # del
     => /\ del'[CACHE_NAME] = "none"
        /\ \A i \in 1..Len(storage) :
             storage[i].name = CACHE_NAME
             => \E j \in 1..Len(storage') : storage'[j] = storage[i]
        /\ \A i \in 1..Len(storage') :
             storage'[i].name = CACHE_NAME
             => \E j \in 1..Len(storage) : storage[j] = storage'[i]]_vars

\* The cleanup deleted a store created before the current one, which is still
\* there with the manifest entry of setup and an entry it held before setup.
C16_Witness ==
  /\ phase = "activated" /\ del["atc-v0"] = "deleted"
  /\ CACHE_NAME \in Names(storage)
  /\ EntriesOf(storage, CACHE_NAME)["/index.html"] = fetched["/index.html"]
  /\ EntriesOf(storage, CACHE_NAME)["/apidocs.html"] = OldResponse

\* C17: a request is routed when it is dispatched, by its path alone: to the
\* API branch (fetch at once) exactly when the path begins with '/api/', to the
\* cache-first branch (caches.match first) otherwise. An API task never waits
\* for caches.match, is never answered from a store, never starts a write, and
\* none of its steps changes a store.
C17_ApiTouchesNoStore ==
  [][\A h \in H :
       /\ (handlers[h].pc = "idle" /\ handlers'[h].pc # "idle")
          => /\ handlers'[h].pc \in {"fetch", "match"}
             /\ handlers'[h].pc = "fetch"
                  <=> SubSeq(handlers'[h].req.path, 1, 5) = "/api/"
       /\ (IsApi(handlers'[h].req) /\ handlers'[h].pc # "idle")
          => /\ handlers'[h].pc \in {"fetch", "responded"}
             /\ handlers'[h].wr = "none"
             /\ handlers'[h].pc = "responded" => handlers'[h].net # Undefined
       /\ ((IsApi(handlers[h].req) \/ IsApi(handlers'[h].req))
           /\ handlers'[h] # handlers[h])
          => storage' = storage]_vars

\* An API task answered by the network beside a task of the other branch, for
\* a path that begins like the API prefix without being under it, that wrote
\* to the store.
C17_Witness ==
  \E h, g \in H :
    /\ IsApi(handlers[h].req) /\ handlers[h].pc = "responded" /\ Ok(handlers[h].net)
    /\ handlers[g].req.path = "/apidocs.html" /\ handlers[g].wr = "stored"

\* An entry e for URL u that setup wrote into the store of the current tag.
WrittenBySetup(u, e) == u \in Manifest /\ e = fetched[u] /\ Ok(e)

\* An entry e for URL u that request handling wrote: a 2xx answer of the
\* network to a GET of a path outside the API prefix.
WrittenByHandling(u, e) ==
  /\ [path |-> u, method |-> "GET"] \in Requests
  /\ ~StartsWith(u, API_PREFIX)
  /\ e \in NetResponses /\ Ok(e)

\* C18: every entry of the store named by the current version tag was there at
\* registration, or was written by setup (a manifest entry), or by request
\* handling (a 2xx network response to a non-API GET); the stores under other
\* names are never written. No entry is the synthesized offline response, has
\* a status outside 2xx, or is keyed by an API path; a write is only ever
\* started for a non-API GET answered 2xx by the network, never on a cache hit.
C18_OnlySetupAndGet2xxStored ==
  /\ \A i \in 1..Len(storage), u \in Urls :
       LET e == storage[i].entries[u]
       IN  e # Undefined
           => /\ Ok(e) /\ e # OfflineResponse /\ ~StartsWith(u, API_PREFIX)
              /\ \/ e = OldEntries[u]
                 \/ /\ storage[i].name = CACHE_NAME
                    /\ WrittenBySetup(u, e) \/ WrittenByHandling(u, e)
  /\ \A i \in 1..Len(storage) :
       storage[i].name # CACHE_NAME => storage[i].entries = OldEntries
  /\ \A h \in H :
       /\ handlers[h].wr # "none" => MissGet2xx(handlers[h])
       /\ CacheHit(handlers[h]) => handlers[h].wr = "none"

\* The store holds the manifest entry of setup and an entry written by request
\* handling, and a later request for the latter is answered from the store.
C18_Witness ==
  /\ WrittenBySetup("/index.html", EntriesOf(storage, CACHE_NAME)["/index.html"])
  /\ WrittenByHandling("/apidocs.html", EntriesOf(storage, CACHE_NAME)["/apidocs.html"])
  /\ \E h \in H :
       /\ CacheHit(handlers[h]) /\ handlers[h].req.path = "/apidocs.html"
       /\ handlers[h].resp = EntriesOf(storage, CACHE_NAME)["/apidocs.html"]

====
